---------------------------- MODULE Spec2Model ----------------------------
(***************************************************************************)
(* A model of the sagemaker-containers bootstrap toolkit:                  *)
(*   - container_support/environment.py  (TrainingEnvironment,             *)
(*                                         HostingEnvironment)             *)
(*   - container_support/serving.py      (Server)                          *)
(*   - sagemaker_containers/trainer.py   (train)                           *)
(* Python values are modelled as TLA+ values: a dict is a function, a list *)
(* is a sequence, a path is the sequence of its components, None is the    *)
(* record None.                                                            *)
(***************************************************************************)
EXTENDS Integers, Sequences, FiniteSets, TLC

VARIABLES
    env,        \* the environment object (its __dict__), None if there is none
    environ,    \* os.environ entries the constructor sets
    config,     \* the configuration files of a job whose constructor runs
    fn,         \* the argument of the last matching_parameters call
    ret,        \* the outcome of the last matching_parameters call
    code,       \* the code directory <base_dir>/code on disk
    output,     \* the files success and failure of <base_dir>/output
    archive,    \* the members of the user's code archive in S3, in order
    user,       \* how the user's module behaves when imported and trained
    metrics,    \* TRUE once the telegraf metrics process was spawned
    downloads,  \* number of download attempts made so far
    tpc,        \* position of the running TrainingEnvironment.train() call
    texc,       \* the exception train() is handling or has raised
    tlog,       \* steps of the try body the current train() call executed
    locals,     \* train()'s local variables user_module, training_parameters
    runs,       \* number of train() calls started
    lpc,        \* position of the running Server._download_user_module call
    lexc,       \* the exception the last download attempt raised
    attempt_number, \* the retry decorator's attempt counter
    elapsed,    \* milliseconds since the first attempt of the call started
    last,       \* what the last _download_user_module_internal call did
    ops,        \* number of Server._download_user_module calls started
    trpc,       \* position of the running trainer.train() call
    framework,  \* the framework module trainer.train() imports
    model,      \* what framework.train returned
    calls,      \* the calls trainer.train() made into the framework, in order
    spc,        \* position of the supervisor: running, in its handler, exited
    pids,       \* the pids the handler was registered with: nginx, gunicorn
    alive,      \* the pids of the child processes that are running
    kills,      \* the os.kill calls made by the handler, in order
    exit_status,    \* the status the supervisor exited with
    escaped,    \* the exception that left the handler, if any
    popens,     \* the subprocess.Popen calls of the supervisor, in order
    response,   \* the response to the last request of the worker
    request,    \* the last request the worker handled
    transform_calls, \* the arguments of the last transform_fn call
    served,     \* number of requests the worker has answered
    app_model   \* self.model of the worker's Server object

matchVars == <<fn, ret>>
envVars == <<env, environ, config>>
diskVars == <<code, output, archive, downloads>>
trainVars == <<user, metrics, tpc, texc, tlog, locals, runs>>

loadVars == <<lpc, lexc, attempt_number, elapsed, last, ops>>

trainerVars == <<trpc, framework, model, calls>>
supVars == <<spc, pids, alive, kills, exit_status, escaped, popens>>
serverVars == <<response, request, transform_calls, served, app_model>>

vars == <<env, environ, config, fn, ret, code, output, archive, user, metrics,
          downloads, tpc, texc, tlog, locals, runs,
          lpc, lexc, attempt_number, elapsed, last, ops,
          trpc, framework, model, calls,
          spc, pids, alive, kills, exit_status, escaped, popens,
          response, request, transform_calls, served, app_model>>

-----------------------------------------------------------------------------
(* Python values *)

None == [type |-> "NoneType"]

EmptyDict == [k \in {} |-> None]

Range(s) == {s[i] : i \in DOMAIN s}

\* dict.get(key, default)
Get(d, key, default) == IF key \in DOMAIN d THEN d[key] ELSE default

\* dict with one more item (d[key] = value)
SetItem(d, key, value) ==
    [k \in DOMAIN d \cup {key} |-> IF k = key THEN value ELSE d[k]]

\* os.path.join(path, component): a path is the sequence of its components
os_path_join(path, component) == Append(path, component)

\* A normal return of value v, and an exception of class exc
Return(v) == [raised |-> FALSE, value |-> v]
Raise(exc) == [raised |-> TRUE, exc |-> exc]

-----------------------------------------------------------------------------
(* Bounds of the model *)

\* longest declared parameter list of a callable passed to the matcher
MaxArgs == 2

\* train() calls made on one TrainingEnvironment object
MaxRuns == 2

\* Server._download_user_module calls made in one process
MaxOps == 2

\* how long a slow download attempt takes, in milliseconds
SlowAttemptMs == 120000

\* requests one worker answers
MaxRequests == 2

-----------------------------------------------------------------------------
(* ContainerEnvironment / TrainingEnvironment construction *)

BASE_DIRECTORY == <<"opt", "ml">>
USER_SCRIPT_NAME_PARAM == "sagemaker_program"
USER_SCRIPT_ARCHIVE_PARAM == "sagemaker_submit_directory"
CLOUDWATCH_METRICS_PARAM == "sagemaker_enable_cloudwatch_metrics"
CONTAINER_LOG_LEVEL_PARAM == "sagemaker_container_log_level"
JOB_NAME_PARAM == "sagemaker_job_name"
CURRENT_HOST_ENV == "CURRENT_HOST"
JOB_NAME_ENV == "JOB_NAME"
SAGEMAKER_REGION_PARAM_NAME == "sagemaker_region"
SAGEMAKER_REGION_ENV == "SAGEMAKER_REGION"
HYPERPARAMETERS_FILE == "hyperparameters.json"
RESOURCE_CONFIG_FILE == "resourceconfig.json"
INPUT_DATA_CONFIG_FILE == "inputdataconfig.json"
S3_URI_PARAM == "sagemaker_s3_uri"

\* json.loads on the JSON texts the model uses; a text that is not JSON raises
json_loads(text) ==
    CASE text = "\"us-west-2\"" -> Return("us-west-2")
      [] text = "\"main.py\"" -> Return("main.py")
      [] text = "\"s3://bucket/code.tar.gz\"" -> Return("s3://bucket/code.tar.gz")
      [] text = "\"run1\"" -> Return("run1")
      [] text = "\"job-1\"" -> Return("job-1")
      [] text = "10" -> Return(10)
      [] text = "true" -> Return(TRUE)
      [] text = "false" -> Return(FALSE)
      [] OTHER -> Raise("ValueError")

\* A configuration file on disk: absent, not JSON, or a JSON object
AbsentFile == [state |-> "absent"]
MalformedFile == [state |-> "malformed"]
JsonFile(content) == [state |-> "ok", content |-> content]

\* a loader that takes an absent file for an empty configuration
_load_config_lenient(file) ==
    CASE file.state = "absent" -> Return(EmptyDict)
      [] file.state = "malformed" -> Raise("ValueError")
      [] OTHER -> Return(file.content)

\* ContainerEnvironment._load_config: open() then json.load()
_load_config(file) ==
    CASE file.state = "absent" -> Raise("IOError")
      [] file.state = "malformed" -> Raise("ValueError")
      [] OTHER -> Return(file.content)

\* TrainingEnvironment._deserialize_hyperparameters: json.loads of every value
_deserialize_hyperparameters(hp) ==
    IF \E k \in DOMAIN hp : json_loads(hp[k]).raised
    THEN Raise("ValueError")
    ELSE Return([k \in DOMAIN hp |-> json_loads(hp[k]).value])

\* TrainingEnvironment._load_hyperparameters
_load_hyperparameters(file) ==
    LET serialized == _load_config(file)
    IN  IF serialized.raised THEN serialized
        ELSE _deserialize_hyperparameters(serialized.value)

\* TrainingEnvironment._get_channel_dir; existing is the set of paths for
\* which os.path.exists is true
_get_channel_dir(input_dir, hyperparameters, existing, channel) ==
    LET channel_s3_uri_param == S3_URI_PARAM \o "_" \o channel
        plain == os_path_join(os_path_join(input_dir, "data"), channel)
    IN  IF channel_s3_uri_param \in DOMAIN hyperparameters
        THEN LET channel_dir == os_path_join(plain, hyperparameters[channel_s3_uri_param])
             IN  IF channel_dir \in existing THEN channel_dir ELSE plain
        ELSE plain

\* The statements of TrainingEnvironment.__init__ after the three config
\* loads and the region lookup have succeeded
InitFields(base_dir, resource_config, hyperparameters, channels, cpus, gpus, existing) ==
    LET model_dir == os_path_join(base_dir, "model")
        code_dir == os_path_join(base_dir, "code")
        input_dir == os_path_join(base_dir, "input")
        output_dir == os_path_join(base_dir, "output")
        current_host == Get(resource_config, "current_host", "")
        hosts == Get(resource_config, "hosts", <<>>)
        output_data_dir ==
            os_path_join(os_path_join(output_dir, "data"),
                         IF Len(hosts) > 1 THEN current_host ELSE "")
        channel_dirs ==
            [c \in DOMAIN channels |->
                _get_channel_dir(input_dir, hyperparameters, existing, c)]
    IN  [base_dir |-> base_dir,
         model_dir |-> model_dir,
         code_dir |-> code_dir,
         available_cpus |-> cpus,
         available_gpus |-> gpus,
         input_dir |-> input_dir,
         input_config_dir |-> os_path_join(input_dir, "config"),
         output_dir |-> output_dir,
         resource_config |-> resource_config,
         hyperparameters |-> hyperparameters,
         network_interface_name |-> Get(resource_config, "network_interface_name", "ethwe"),
         current_host |-> current_host,
         hosts |-> hosts,
         output_data_dir |-> output_data_dir,
         channels |-> channels,
         channel_dirs |-> channel_dirs,
         user_script_name |-> Get(hyperparameters, USER_SCRIPT_NAME_PARAM, ""),
         user_script_archive |-> Get(hyperparameters, USER_SCRIPT_ARCHIVE_PARAM, ""),
         enable_cloudwatch_metrics |-> Get(hyperparameters, CLOUDWATCH_METRICS_PARAM, FALSE),
         sagemaker_region |-> hyperparameters[SAGEMAKER_REGION_PARAM_NAME],
         distributed |-> Len(hosts) > 1,
         kwargs_for_training |->
            [hyperparameters |-> hyperparameters,
             input_data_config |-> channels,
             channel_input_dirs |-> channel_dirs,
             output_data_dir |-> output_data_dir,
             model_dir |-> model_dir,
             num_gpus |-> gpus,
             num_cpus |-> cpus,
             hosts |-> hosts,
             current_host |-> current_host],
         training_parameters |-> None]

\* os.environ after the constructor's assignments, in statement order
InitEnviron(resource_config, hyperparameters) ==
    LET e1 == [k \in {JOB_NAME_ENV, CURRENT_HOST_ENV} |->
                IF k = JOB_NAME_ENV
                THEN Get(hyperparameters, JOB_NAME_PARAM, "")
                ELSE Get(resource_config, "current_host", "")]
    IN  IF SAGEMAKER_REGION_PARAM_NAME \in DOMAIN hyperparameters
        THEN SetItem(e1, SAGEMAKER_REGION_ENV, hyperparameters[SAGEMAKER_REGION_PARAM_NAME])
        ELSE e1

\* TrainingEnvironment.__init__: the outcome (the object, or the exception)
\* and os.environ when the constructor ends
TrainingEnvironment__init__(base_dir, files, cpus, gpus, existing) ==
    LET rc == _load_config(files[RESOURCE_CONFIG_FILE])
        hp == _load_hyperparameters(files[HYPERPARAMETERS_FILE])
        ch == _load_config(files[INPUT_DATA_CONFIG_FILE])
    IN  CASE rc.raised -> [outcome |-> rc, environ |-> EmptyDict]
          [] hp.raised -> [outcome |-> hp, environ |-> EmptyDict]
          [] ch.raised -> [outcome |-> ch, environ |-> EmptyDict]
          [] SAGEMAKER_REGION_PARAM_NAME \notin DOMAIN hp.value ->
                [outcome |-> Raise("KeyError"),
                 environ |-> InitEnviron(rc.value, hp.value)]
          [] OTHER ->
                [outcome |-> Return(InitFields(base_dir, rc.value, hp.value,
                                               ch.value, cpus, gpus, existing)),
                 environ |-> InitEnviron(rc.value, hp.value)]

-----------------------------------------------------------------------------
(* The configurations the model runs on *)

ResourceConfigs ==
    {JsonFile(EmptyDict),
     JsonFile([current_host |-> "algo-1", hosts |-> <<"algo-1">>]),
     JsonFile([current_host |-> "algo-1", hosts |-> <<"algo-1", "algo-2">>])}

HyperparameterFiles ==
    {JsonFile([sagemaker_region |-> "\"us-west-2\"",
               sagemaker_program |-> "\"main.py\"",
               sagemaker_submit_directory |-> "\"s3://bucket/code.tar.gz\"",
               sagemaker_enable_cloudwatch_metrics |-> "true",
               epochs |-> "10"]),
     JsonFile([sagemaker_region |-> "\"us-west-2\"",
               sagemaker_program |-> "\"main.py\"",
               sagemaker_submit_directory |-> "\"s3://bucket/code.tar.gz\"",
               sagemaker_s3_uri_training |-> "\"run1\""])}

InputDataConfigs ==
    {JsonFile(EmptyDict),
     JsonFile([training |-> [TrainingInputMode |-> "File"]])}

ConfigFiles ==
    {[f \in {RESOURCE_CONFIG_FILE, HYPERPARAMETERS_FILE, INPUT_DATA_CONFIG_FILE} |->
        CASE f = RESOURCE_CONFIG_FILE -> rc
          [] f = HYPERPARAMETERS_FILE -> hp
          [] OTHER -> ch] :
     rc \in ResourceConfigs, hp \in HyperparameterFiles, ch \in InputDataConfigs}

ChannelRunDir == <<"opt", "ml", "input", "data", "training", "run1">>

\* The objects the constructor returns on the configurations above
ConstructedEnvs ==
    {TrainingEnvironment__init__(BASE_DIRECTORY, files, cpus, gpus, existing) :
        files \in ConfigFiles, cpus \in {1, 4}, gpus \in {0, 1},
        existing \in {{}, {ChannelRunDir}}}

-----------------------------------------------------------------------------
(* ArgumentMatcher: TrainingEnvironment.matching_parameters *)

KeywordsNone == ""

\* parameter names a callable may declare: some that kwargs_for_training
\* offers, self, and some it does not offer
ArgNames == {"self", "hyperparameters", "model_dir", "epochs"}

ArgLists ==
    {s \in UNION {[1..n -> ArgNames] : n \in 0..MaxArgs} :
        \A i, j \in DOMAIN s : i # j => s[i] # s[j]}

\* What can be passed as fn: Python functions and bound methods (getargspec
\* accepts them) and modules (it does not)
Callables ==
    [kind : {"function", "method"}, args : ArgLists, keywords : {KeywordsNone, "kwargs"}]

Modules == {[kind |-> "module", name |-> "main"]}

\* inspect.getargspec(fn): the ArgSpec of a function or method, TypeError
\* for anything else
getargspec(f) ==
    IF f.kind \in {"function", "method"}
    THEN Return([args |-> f.args, keywords |-> f.keywords])
    ELSE Raise("TypeError")

\* The loop "for arg in train_args.args" of matching_parameters, from the
\* i-th declared parameter on, kwargs_to_pass being the dict built so far
RECURSIVE MatchLoop(_, _, _, _)
MatchLoop(args, i, available, kwargs_to_pass) ==
    IF i > Len(args) THEN kwargs_to_pass
    ELSE IF args[i] # "self" /\ args[i] \in DOMAIN available
         THEN MatchLoop(args, i + 1, available,
                        SetItem(kwargs_to_pass, args[i], available[args[i]]))
         ELSE MatchLoop(args, i + 1, available, kwargs_to_pass)

\* A matcher that ignores the signature and always passes everything
matching_parameters_pass_all(self, f) ==
    LET train_args == getargspec(f)
    IN  IF train_args.raised THEN train_args
        ELSE Return(self.kwargs_for_training)

\* TrainingEnvironment.matching_parameters(fn)
matching_parameters(self, f) ==
    LET train_args == getargspec(f)
    IN  IF train_args.raised THEN train_args
        ELSE IF train_args.value.keywords = KeywordsNone
             THEN Return(MatchLoop(train_args.value.args, 1,
                                   self.kwargs_for_training, EmptyDict))
             ELSE Return(self.kwargs_for_training)

\* a loader that also narrows kwargs_for_training to what was matched
load_training_parameters_narrowing(self, f) ==
    LET r == matching_parameters(self, f)
    IN  IF r.raised THEN r
        ELSE Return([self EXCEPT !.training_parameters = r.value,
                                 !.kwargs_for_training = r.value])

\* TrainingEnvironment.load_training_parameters(fn): the object afterwards,
\* or the exception matching_parameters raised
load_training_parameters(self, f) ==
    LET r == matching_parameters(self, f)
    IN  IF r.raised THEN r
        ELSE Return([self EXCEPT !.training_parameters = r.value])

-----------------------------------------------------------------------------
(* The code directory and the download of the user's module *)

NoDir == [exists |-> FALSE]

\* A directory holding files: name -> [by: the download attempt that wrote
\* it, complete: whether it was written to its end]
Dir(files) == [exists |-> TRUE, files |-> files]

FilesOf(dir) == IF dir.exists THEN dir.files ELSE EmptyDict

\* os.path.exists(os.path.join(dir, name))
Exists(dir, name) == dir.exists /\ name \in DOMAIN dir.files

\* cs.untar_directory extracting the first n members of members into dir,
\* the n-th one cut short when truncated; files of the same name are
\* overwritten
Extract(dir, members, n, truncated, attempt) ==
    LET old == FilesOf(dir)
        new == {members[i] : i \in 1..n}
    IN  Dir([name \in DOMAIN old \cup new |->
                IF name \in new
                THEN [by |-> attempt,
                      complete |-> ~(truncated /\ name = members[n])]
                ELSE old[name]])

\* ContainerEnvironment.download_user_module: the possible outcomes of the
\* download of the archive followed by its extraction into code_dir.
\* download_s3_resource fails before anything is written to code_dir;
\* untar_directory fails before or part-way through the extraction.
download_user_module(dir, members, attempt) ==
    LET full == Extract(dir, members, Len(members), FALSE, attempt)
        partial == {Extract(dir, members, n, t, attempt) :
                        n \in 1..Len(members), t \in BOOLEAN} \ {full}
    IN  {[raised |-> TRUE, exc |-> "S3DownloadError", code |-> dir],
         [raised |-> TRUE, exc |-> "TarError", code |-> dir],
         [raised |-> FALSE, exc |-> "", code |-> full]}
        \cup {[raised |-> TRUE, exc |-> "TarError", code |-> c] : c \in partial}

\* the module name import_user_module derives from user_script_name
\* (script[:-3] when it ends with ".py")
ModuleName(script) ==
    CASE script = "main.py" -> "main"
      [] script = "util.py" -> "util"
      [] script = "lib.py" -> "lib"
      [] OTHER -> script

\* ContainerEnvironment.import_user_module: importlib.import_module finds
\* the module when <code_dir>/<module>.py is there, and then runs it
import_user_module(self, dir, usr) ==
    LET module == ModuleName(self.user_script_name)
    IN  IF ~Exists(dir, module \o ".py") THEN Raise("ImportError")
        ELSE IF ~dir.files[module \o ".py"].complete THEN Raise("SyntaxError")
        ELSE IF usr.import_raises THEN Raise("UserImportError")
        ELSE Return([kind |-> "module", name |-> module])

\* ContainerEnvironment.start_metrics_if_enabled: the possible outcomes;
\* subprocess.Popen raises OSError when telegraf cannot be started
start_metrics_if_enabled(self, running) ==
    IF self.enable_cloudwatch_metrics
    THEN {[raised |-> FALSE, exc |-> "", metrics |-> TRUE],
          [raised |-> TRUE, exc |-> "OSError", metrics |-> running]}
    ELSE {[raised |-> FALSE, exc |-> "", metrics |-> running]}

-----------------------------------------------------------------------------
(* Server._download_user_module_internal and its retry *)

\* a cleanup that removes nothing
rmtree_keeps(dir) == IF dir.exists THEN Return(dir) ELSE Raise("OSError")

\* shutil.rmtree(dir): removes the directory, OSError when there is none
rmtree(dir) == IF dir.exists THEN Return(NoDir) ELSE Raise("OSError")

\* the outcome of no _download_user_module_internal call
NoInternalCall ==
    [raised |-> FALSE, exc |-> "", downloaded |-> FALSE, after_success |-> FALSE,
     called |-> FALSE]

\* a loader that downloads without looking for the module first
_download_user_module_internal_always(self, dir, members, attempt) ==
    {[raised |-> o.raised, exc |-> o.exc, downloaded |-> TRUE,
      code |-> IF o.raised
               THEN (IF rmtree(o.code).raised THEN o.code ELSE rmtree(o.code).value)
               ELSE o.code] :
        o \in download_user_module(dir, members, attempt)}

\* Server._download_user_module_internal(env): the possible outcomes. A
\* present <code_dir>/<user_script_name> ends the call; otherwise the module
\* is downloaded and, when that raises, code_dir is removed (an OSError of
\* the removal is passed over) and the exception raised again.
_download_user_module_internal(self, dir, members, attempt) ==
    IF Exists(dir, self.user_script_name)
    THEN {[raised |-> FALSE, exc |-> "", code |-> dir, downloaded |-> FALSE]}
    ELSE {[raised |-> o.raised, exc |-> o.exc, downloaded |-> TRUE,
           code |-> IF o.raised
                    THEN (IF rmtree(o.code).raised THEN o.code ELSE rmtree(o.code).value)
                    ELSE o.code] :
            o \in download_user_module(dir, members, attempt)}

\* The arguments of the retry decorator of Server._download_user_module
stop_max_delay == 600000
wait_exponential_multiplier == 100
wait_exponential_max == 60000

\* two to the n
RECURSIVE Pow2(_)
Pow2(n) == IF n = 0 THEN 1 ELSE 2 * Pow2(n - 1)

\* the retry's wait before the attempt after attempt number n: exponential
\* in n and capped
exponential_sleep(previous_attempt_number) ==
    LET result == wait_exponential_multiplier * Pow2(previous_attempt_number)
    IN  IF result > wait_exponential_max THEN wait_exponential_max ELSE result

\* the retry gives up once the time since the first attempt reaches the
\* ceiling
stop_after_delay(delay_since_first_attempt_ms) ==
    delay_since_first_attempt_ms >= stop_max_delay

-----------------------------------------------------------------------------
(* The marker files of <base_dir>/output: path -> what was written to it *)

\* TrainingEnvironment.write_success_file: open(path, 'w').close() leaves an
\* empty file; the open raises IOError when the file cannot be created
write_success_file(self, files) ==
    LET path == os_path_join(self.output_dir, "success")
    IN  {[raised |-> FALSE, exc |-> "", output |-> SetItem(files, path, <<>>)],
         [raised |-> TRUE, exc |-> "IOError", output |-> files]}

\* a write_failure_file that opens the file with mode 'w'
write_failure_file_truncating(message, base_dir, files) ==
    LET dir == IF base_dir # <<>> THEN base_dir ELSE BASE_DIRECTORY
        path == os_path_join(os_path_join(dir, "output"), "failure")
    IN  SetItem(files, path, <<message>>)

\* TrainingEnvironment.write_failure_file(message, base_dir): appends
write_failure_file(message, base_dir, files) ==
    LET dir == IF base_dir # <<>> THEN base_dir ELSE BASE_DIRECTORY
        path == os_path_join(os_path_join(dir, "output"), "failure")
    IN  SetItem(files, path, Append(Get(files, path, <<>>), message))

-----------------------------------------------------------------------------
(* TrainingEnvironment.train() *)

\* An exception object: its class, str(e), and the stack it was raised on
Exception(class, step) ==
    [class |-> class,
     message |-> "message of " \o class,
     traceback |-> <<"train", step>>]

\* the exception's last line only, without the stack
format_exception_only(e) == [traceback |-> <<>>, class |-> e.class, message |-> e.message]

\* traceback.format_exc() while e is being handled
format_exc(e) == [traceback |-> e.traceback, class |-> e.class, message |-> e.message]

\* a failure message whose trace lacks the stack
FailureMessage_no_stack(e) ==
    [text |-> "uncaught exception during training: {}\n{}\n",
     e |-> e.message,
     trc |-> format_exception_only(e)]

\* 'uncaught exception during training: {}\n{}\n'.format(e, trc)
FailureMessage(e) ==
    [text |-> "uncaught exception during training: {}\n{}\n",
     e |-> e.message,
     trc |-> format_exc(e)]

\* a try body that imports before it downloads
TryBody_import_first ==
    <<"start_metrics_if_enabled", "import_user_module", "download_user_module",
      "load_training_parameters", "__train__", "write_success_file">>

\* The statements of the try body, in order
TryBody ==
    <<"start_metrics_if_enabled", "download_user_module", "import_user_module",
      "load_training_parameters", "__train__", "write_success_file">>

IndexOf(step) == CHOOSE i \in DOMAIN TryBody : TryBody[i] = step

\* where control goes when the statement step completes normally
NextStep(step) ==
    IF IndexOf(step) < Len(TryBody) THEN TryBody[IndexOf(step) + 1] ELSE "returned"

\* The state a statement of the try body reads and writes
TrainState(self, dir, files, running, loc) ==
    [self |-> self, code |-> dir, output |-> files, metrics |-> running, locals |-> loc]

\* The possible outcomes of one statement of the try body: whether it raised,
\* the exception class, and the state it leaves
StepOutcomes(step, st, members, usr, attempt) ==
    CASE step = "start_metrics_if_enabled" ->
            {[raised |-> o.raised, exc |-> o.exc,
              state |-> [st EXCEPT !.metrics = o.metrics]] :
                o \in start_metrics_if_enabled(st.self, st.metrics)}
      [] step = "download_user_module" ->
            {[raised |-> o.raised, exc |-> o.exc,
              state |-> [st EXCEPT !.code = o.code]] :
                o \in download_user_module(st.code, members, attempt)}
      [] step = "import_user_module" ->
            LET r == import_user_module(st.self, st.code, usr)
            IN  IF r.raised
                THEN {[raised |-> TRUE, exc |-> r.exc, state |-> st]}
                ELSE {[raised |-> FALSE, exc |-> "",
                       state |-> [st EXCEPT !.locals.user_module = r.value]]}
      [] step = "load_training_parameters" ->
            \* training_parameters = self.load_training_parameters(user_module)
            LET r == load_training_parameters(st.self, st.locals.user_module)
            IN  IF r.raised
                THEN {[raised |-> TRUE, exc |-> r.exc, state |-> st]}
                ELSE {[raised |-> FALSE, exc |-> "",
                       state |-> [st EXCEPT !.self = r.value,
                                            !.locals.training_parameters = None]]}
      [] step = "__train__" ->
            \* the class defines no attribute __train__
            {[raised |-> TRUE, exc |-> "AttributeError", state |-> st]}
      [] step = "write_success_file" ->
            {[raised |-> o.raised, exc |-> o.exc,
              state |-> [st EXCEPT !.output = o.output]] :
                o \in write_success_file(st.self, st.output)}

-----------------------------------------------------------------------------
(* sagemaker_containers/trainer.py: train() *)

\* what framework.train may return: None, an empty list, model objects
Models ==
    {None, [type |-> "list", len |-> 0], [type |-> "list", len |-> 1],
     [type |-> "Model", id |-> 1], [type |-> "Model", id |-> 2]}

\* bool(m), as "if model:" evaluates it
Truthy(m) ==
    CASE m.type = "NoneType" -> FALSE
      [] m.type = "list" -> m.len > 0
      [] OTHER -> TRUE

\* hasattr(module, name)
hasattr(module, name) == name \in module.attrs

\* the framework modules importlib.import_module may return: with and
\* without a save function
Frameworks ==
    [name : {"my_framework", "mxnet_container"}, attrs : {{"train"}, {"train", "save"}}]

\* env.TrainingEnv(): the two properties train() reads
TrainingEnvs ==
    [model_dir : {<<"opt", "ml", "model">>, <<"model_dir">>},
     framework_module : {"my_framework", "mxnet_container"}]

\* a call train() makes: the callee, the model passed (or called on), the path
Call(callee, m, path) == [callee |-> callee, model |-> m, path |-> path]

\* a save step that saves whatever train returned, through the model
save_calls_unconditional(fw, m, training_env) ==
    <<Call("model.save", m, os_path_join(training_env.model_dir, "saved_model"))>>

\* The statements after framework.train returned m ("if model: ..."): the
\* save calls they make, in order
save_calls(fw, m, training_env) ==
    IF Truthy(m)
    THEN IF hasattr(fw, "save")
         THEN <<Call("framework.save", m, training_env.model_dir)>>
         ELSE LET model_file == os_path_join(training_env.model_dir, "saved_model")
              IN  <<Call("model.save", m, model_file)>>
    ELSE <<>>

\* trainer.train() not called yet
TrainerIdle ==
    /\ trpc = "idle"
    /\ framework = [name |-> "", attrs |-> {}]
    /\ model = None
    /\ calls = <<>>

-----------------------------------------------------------------------------
(* HostingEnvironment and the start of the supervisor *)

MODEL_SERVER_WORKERS_PARAM == "SAGEMAKER_MODEL_SERVER_WORKERS"
MODEL_SERVER_TIMEOUT_PARAM == "SAGEMAKER_MODEL_SERVER_TIMEOUT"
USE_NGINX_ENV == "SAGEMAKER_USE_NGINX"

\* str.upper() of the parameter names the constructor reads from os.environ
upper(name) ==
    CASE name = USER_SCRIPT_NAME_PARAM -> "SAGEMAKER_PROGRAM"
      [] name = USER_SCRIPT_ARCHIVE_PARAM -> "SAGEMAKER_SUBMIT_DIRECTORY"
      [] name = CLOUDWATCH_METRICS_PARAM -> "SAGEMAKER_ENABLE_CLOUDWATCH_METRICS"
      [] name = CONTAINER_LOG_LEVEL_PARAM -> "SAGEMAKER_CONTAINER_LOG_LEVEL"
      [] name = JOB_NAME_PARAM -> "SAGEMAKER_JOB_NAME"
      [] name = SAGEMAKER_REGION_PARAM_NAME -> "SAGEMAKER_REGION"
      [] OTHER -> name

\* str.lower() of the values of the metrics flag
lower(text) == CASE text = "True" -> "true" [] text = "False" -> "false" [] OTHER -> text

\* a Python int or str: os.environ holds str, the defaults are int
PyInt(n) == [type |-> "int", int |-> n, str |-> ""]
PyStr(t) == [type |-> "str", int |-> 0, str |-> t]

\* int(v) of an int, or of the decimal strings the model uses
int(v) ==
    IF v.type = "int" THEN Return(v.int)
    ELSE CASE v.str = "1" -> Return(1)
           [] v.str = "2" -> Return(2)
           [] v.str = "20" -> Return(20)
           [] v.str = "100" -> Return(100)
           [] OTHER -> Raise("ValueError")

\* HostingEnvironment.__init__ when os.environ is os_environ: the outcome (the
\* object, or the exception) and os.environ when the constructor ends
HostingEnvironment__init__(base_dir, os_environ, cpus, gpus) ==
    LET get(name, default) ==
            IF name \in DOMAIN os_environ THEN PyStr(os_environ[name]) ELSE default
        workers == int(get(MODEL_SERVER_WORKERS_PARAM, PyInt(cpus)))
        log_level == int(get(upper(CONTAINER_LOG_LEVEL_PARAM), PyStr("")))
        region == upper(SAGEMAKER_REGION_PARAM_NAME)
    IN  CASE workers.raised -> [outcome |-> workers, environ |-> os_environ]
          [] upper(CONTAINER_LOG_LEVEL_PARAM) \notin DOMAIN os_environ ->
                [outcome |-> Raise("KeyError"), environ |-> os_environ]
          [] log_level.raised -> [outcome |-> log_level, environ |-> os_environ]
          [] region \notin DOMAIN os_environ ->
                [outcome |-> Raise("KeyError"), environ |-> os_environ]
          [] OTHER ->
                [outcome |-> Return(
                    [base_dir |-> base_dir,
                     model_dir |-> os_path_join(base_dir, "model"),
                     code_dir |-> os_path_join(base_dir, "code"),
                     available_cpus |-> cpus,
                     available_gpus |-> gpus,
                     model_server_timeout |-> get(MODEL_SERVER_TIMEOUT_PARAM, PyInt(60)),
                     user_script_name |-> get(upper(USER_SCRIPT_NAME_PARAM), None),
                     user_script_archive |-> get(upper(USER_SCRIPT_ARCHIVE_PARAM), None),
                     enable_cloudwatch_metrics |->
                        lower(get(upper(CLOUDWATCH_METRICS_PARAM), PyStr("false")).str) = "true",
                     use_nginx |-> get(USE_NGINX_ENV, PyStr("true")).str = "true",
                     model_server_workers |-> workers.value,
                     container_log_level |-> log_level.value,
                     sagemaker_region |-> os_environ[region]]),
                 environ |-> SetItem(os_environ, JOB_NAME_ENV,
                                     Get(os_environ, upper(JOB_NAME_PARAM), ""))]

-----------------------------------------------------------------------------
(* Server._sigterm_handler *)

SIGQUIT == "SIGQUIT"
SIGTERM == "SIGTERM"

\* nginx_pid when no proxy was started (None)
NoPid == 0

\* os.kill(pid, sig): OSError when there is no such process
os_kill(pid, sig, running) ==
    IF pid \in running THEN Return(None) ELSE Raise("OSError")

\* a kill whose OSError leaves the handler
try_kill_propagates(pid, sig, running) ==
    [call |-> [pid |-> pid, sig |-> sig, raised |-> os_kill(pid, sig, running).raised],
     escaped |-> IF os_kill(pid, sig, running).raised THEN "OSError" ELSE ""]

\* try: os.kill(pid, sig) except OSError: pass -- the call made and the
\* exception that leaves the statement (none)
try_kill(pid, sig, running) ==
    [call |-> [pid |-> pid, sig |-> sig, raised |-> os_kill(pid, sig, running).raised],
     escaped |-> ""]

\* a handler that sends the proxy the signal meant for the workers
signal_proxy_sigterm(nginx_pid, running) ==
    IF nginx_pid # NoPid THEN <<try_kill(nginx_pid, SIGTERM, running)>> ELSE <<>>

\* "if nginx_pid: ..." of the handler: the kills it makes
signal_proxy(nginx_pid, running) ==
    IF nginx_pid # NoPid THEN <<try_kill(nginx_pid, SIGQUIT, running)>> ELSE <<>>

\* the kill of the worker pool
signal_workers(gunicorn_pid, running) == <<try_kill(gunicorn_pid, SIGTERM, running)>>

\* the calls of a sequence of kills, and the first exception that escaped
CallsOf(ks) == [i \in DOMAIN ks |-> ks[i].call]
EscapedOf(ks) ==
    IF \E i \in DOMAIN ks : ks[i].escaped # ""
    THEN ks[CHOOSE i \in DOMAIN ks : ks[i].escaped # ""].escaped
    ELSE ""

\* no supervisor in this process
SupervisorIdle ==
    /\ spc = "none"
    /\ pids = [nginx |-> NoPid, gunicorn |-> NoPid]
    /\ alive = {}
    /\ kills = <<>>
    /\ exit_status = <<>>
    /\ escaped = ""
    /\ popens = <<>>

-----------------------------------------------------------------------------
(* Server: the Flask application of a worker *)

NPY_CONTENT_TYPE == "application/x-npy"
JSON_CONTENT_TYPE == "application/json"
CSV_CONTENT_TYPE == "text/csv"
OCTET_STREAM_CONTENT_TYPE == "application/octet-stream"
ANY_CONTENT_TYPE == "*/*"
UTF8_CONTENT_TYPES == {JSON_CONTENT_TYPE, CSV_CONTENT_TYPE}

\* the mimetype Flask gives a response built from a (body, status) pair
DEFAULT_MIMETYPE == "text/html"

\* json.dumps of a string
json_dumps(text) == "\"" \o text \o "\""

\* str of the numbers the model uses
str(n) ==
    CASE n = 0 -> "0" [] n = 1 -> "1" [] n = 2 -> "2" [] n = 4 -> "4"
      [] n = 60 -> "60" [] n = 100 -> "100" [] OTHER -> "n"

\* The exception classes of serving.py: the constructor sets message
UnsupportedContentTypeError(content_type) ==
    [class |-> "UnsupportedContentTypeError", has_message |-> TRUE,
     message |-> "Requested unsupported ContentType: " \o content_type]

UnsupportedAcceptTypeError(accept) ==
    [class |-> "UnsupportedAcceptTypeError", has_message |-> TRUE,
     message |-> "Requested unsupported ContentType in Accept: " \o accept]

UnsupportedInputShapeError(n) ==
    [class |-> "UnsupportedInputShapeError", has_message |-> TRUE,
     message |-> "Model can have only 1 input data, but it has: " \o str(n)]

\* any other exception: with a message attribute or without one
OtherException(class, has_message) ==
    [class |-> class, has_message |-> has_message,
     message |-> IF has_message THEN "message of " \o class ELSE ""]

Response(body, status, mimetype) ==
    [status |-> status, body |-> body, mimetype |-> mimetype]

\* an exception handler with the codes of the first two errors exchanged
_handle_invoke_exception_swapped(e) ==
    IF ~e.has_message THEN Raise([class |-> "AttributeError", has_message |-> FALSE,
                                  message |-> ""])
    ELSE LET data == json_dumps(e.message)
         IN  CASE e.class = "UnsupportedContentTypeError" -> Return(<<406, data>>)
               [] e.class = "UnsupportedAcceptTypeError" -> Return(<<415, data>>)
               [] e.class = "UnsupportedInputShapeError" -> Return(<<412, data>>)
               [] OTHER -> Raise(e)

\* Server._handle_invoke_exception(e): (status, data), or the exception that
\* leaves it; reading e.message raises AttributeError when e has none
_handle_invoke_exception(e) ==
    IF ~e.has_message THEN Raise([class |-> "AttributeError", has_message |-> FALSE,
                                  message |-> ""])
    ELSE LET data == json_dumps(e.message)
         IN  CASE e.class = "UnsupportedContentTypeError" -> Return(<<415, data>>)
               [] e.class = "UnsupportedAcceptTypeError" -> Return(<<406, data>>)
               [] e.class = "UnsupportedInputShapeError" -> Return(<<412, data>>)
               [] OTHER -> Raise(e)

\* request.get_data().decode('utf-8')
decode_utf8(data) ==
    IF data.utf8 THEN Return([text |-> data.id])
    ELSE Raise([class |-> "UnicodeDecodeError", has_message |-> FALSE, message |-> ""])

\* an _invoke that reads the 'Content-Type' header before 'ContentType'
_invoke_standard_header_first(self_model, req, outcome) ==
    LET input_content_type ==
            Get(req.headers, "Content-Type",
                Get(req.headers, "ContentType", JSON_CONTENT_TYPE))
        requested_output_content_type == Get(req.headers, "Accept", JSON_CONTENT_TYPE)
        decoded == decode_utf8(req.data)
        content == IF input_content_type \in UTF8_CONTENT_TYPES
                   THEN decoded.value ELSE [bytes |-> req.data.id]
        call == [model |-> self_model, content |-> content,
                 input_content_type |-> input_content_type,
                 requested_output_content_type |-> requested_output_content_type,
                 outcome |-> outcome]
    IN  IF input_content_type \in UTF8_CONTENT_TYPES /\ decoded.raised
        THEN [calls |-> <<>>, result |-> Raise(decoded.exc)]
        ELSE IF ~outcome.raised
        THEN [calls |-> <<call>>,
              result |-> Return(Response(outcome.value[1], 200, outcome.value[2]))]
        ELSE LET handled == _handle_invoke_exception(outcome.exc)
             IN  IF handled.raised
                 THEN [calls |-> <<call>>, result |-> Raise(handled.exc)]
                 ELSE [calls |-> <<call>>,
                       result |-> Return(Response(handled.value[2], handled.value[1],
                                                  JSON_CONTENT_TYPE))]

\* Server._invoke() on request req when transform_fn behaves as outcome: the
\* transform_fn calls made, and the response or the exception that leaves it
_invoke(self_model, req, outcome) ==
    LET input_content_type ==
            Get(req.headers, "ContentType",
                Get(req.headers, "Content-Type", JSON_CONTENT_TYPE))
        requested_output_content_type == Get(req.headers, "Accept", JSON_CONTENT_TYPE)
        decoded == decode_utf8(req.data)
        content == IF input_content_type \in UTF8_CONTENT_TYPES
                   THEN decoded.value ELSE [bytes |-> req.data.id]
        call == [model |-> self_model, content |-> content,
                 input_content_type |-> input_content_type,
                 requested_output_content_type |-> requested_output_content_type,
                 outcome |-> outcome]
    IN  IF input_content_type \in UTF8_CONTENT_TYPES /\ decoded.raised
        THEN [calls |-> <<>>, result |-> Raise(decoded.exc)]
        ELSE IF ~outcome.raised
        THEN [calls |-> <<call>>,
              result |-> Return(Response(outcome.value[1], 200, outcome.value[2]))]
        ELSE LET handled == _handle_invoke_exception(outcome.exc)
             IN  IF handled.raised
                 THEN [calls |-> <<call>>, result |-> Raise(handled.exc)]
                 ELSE [calls |-> <<call>>,
                       result |-> Return(Response(handled.value[2], handled.value[1],
                                                  JSON_CONTENT_TYPE))]

\* a health check that reports the worker as not ready
_healthcheck_unavailable == Response("", 503, DEFAULT_MIMETYPE)

\* Server._healthcheck()
_healthcheck == Response("", 200, DEFAULT_MIMETYPE)

\* Server._default_error_handler(exception)
_default_error_handler(exception) == Response("", 500, DEFAULT_MIMETYPE)

\* The application built by Server._build_flask_app answering req: the rule
\* of the request's path runs, and an exception that leaves it goes to the
\* registered error handler
Dispatch(self_model, req, outcome) ==
    IF req.path = "/ping"
    THEN [calls |-> <<>>, response |-> _healthcheck]
    ELSE LET r == _invoke(self_model, req, outcome)
         IN  [calls |-> r.calls,
              response |-> IF r.result.raised
                           THEN _default_error_handler(r.result.exc)
                           ELSE r.result.value]

NoRequest == [path |-> "", method |-> "", headers |-> EmptyDict,
              data |-> [id |-> 0, utf8 |-> TRUE]]

\* no worker in this process
ServerIdle ==
    /\ response = <<>>
    /\ request = NoRequest
    /\ transform_calls = <<>>
    /\ served = 0
    /\ app_model = None

-----------------------------------------------------------------------------
(* start_server: the supervisor launches the proxy and the worker pool *)

\* the public port, and the socket only the proxy reaches
PublicBind == "0.0.0.0:8080"
LocalSocket == "unix:/tmp/gunicorn.sock"

\* str(v) of a Python int or str
py_str(v) == IF v.type = "str" THEN v.str ELSE str(v.int)

\* a worker pool that always binds the public port
gunicorn_bind_public(use_nginx) == PublicBind

\* the address the worker pool binds
gunicorn_bind(use_nginx) == IF use_nginx THEN LocalSocket ELSE PublicBind

\* the Popen call that starts the proxy; /tmp/nginx.conf makes it listen on
\* the public port and forward to the local socket
nginx_popen ==
    [argv |-> <<"nginx", "-c", "/tmp/nginx.conf">>, listens |-> PublicBind]

\* the Popen call that starts the worker pool serving module_app
gunicorn_popen(self, module_app) ==
    [argv |-> <<"gunicorn",
                "--timeout", py_str(self.model_server_timeout),
                "-k", "gevent",
                "-b", gunicorn_bind(self.use_nginx),
                "--worker-connections", "2000",
                "-w", str(self.model_server_workers),
                "--log-level", "debug",
                module_app>>,
     listens |-> gunicorn_bind(self.use_nginx)]

\* the Popen calls start_server makes before the pool, and for the pool
launch_proxy(self) == IF self.use_nginx THEN <<nginx_popen>> ELSE <<>>
launch_workers(self, module_app) == <<gunicorn_popen(self, module_app)>>

-----------------------------------------------------------------------------
(* The disk, the archive and the user's module when a job starts *)

\* the archive holds the user's script (first or last member) or lacks it
Archives == {<<"main.py", "util.py">>, <<"util.py", "main.py">>, <<"util.py", "lib.py">>}

UserModules == [import_raises : BOOLEAN]

NoLocals == [user_module |-> None, training_parameters |-> None]

NoCall == [kind |-> "none"]

\* no matcher call made yet
MatchIdle ==
    /\ fn = NoCall
    /\ ret = None

\* the configuration files are not looked at
NoConfig == [f \in {} |-> AbsentFile]

\* a TrainingEnvironment constructed from one of the configurations
EnvConstructed ==
    \E c \in ConstructedEnvs :
        /\ ~c.outcome.raised
        /\ env = c.outcome.value
        /\ environ = c.environ
        /\ config = NoConfig

\* no TrainingEnvironment in this process
EnvAbsent ==
    /\ env = None
    /\ environ = EmptyDict
    /\ config = NoConfig

\* a fresh container: no code directory, no marker files, nothing downloaded
DiskFresh ==
    /\ code = NoDir
    /\ output = EmptyDict
    /\ downloads = 0

\* TrainingEnvironment.train() not called yet
TrainIdle ==
    /\ metrics = FALSE
    /\ tpc = "idle"
    /\ texc = None
    /\ tlog = <<>>
    /\ locals = NoLocals
    /\ runs = 0

\* Server._download_user_module not called yet
LoaderIdle ==
    /\ lpc = "idle"
    /\ lexc = ""
    /\ attempt_number = 0
    /\ elapsed = 0
    /\ last = NoInternalCall
    /\ ops = 0

-----------------------------------------------------------------------------
(* Specification of the matcher: matching_parameters called on a           *)
(* constructed TrainingEnvironment with every callable of Callables        *)

MatchInit ==
    /\ EnvConstructed
    /\ MatchIdle
    /\ DiskFresh
    /\ archive = <<"main.py", "util.py">>
    /\ user = [import_raises |-> FALSE]
    /\ TrainIdle
    /\ LoaderIdle
    /\ TrainerIdle
    /\ SupervisorIdle
    /\ ServerIdle

CallMatchingParameters ==
    /\ \E f \in Callables \cup Modules :
          /\ fn' = f
          /\ ret' = matching_parameters(env, f)
    /\ UNCHANGED <<envVars, diskVars, trainVars, loadVars,
                   trainerVars, supVars, serverVars>>

MatchNext == CallMatchingParameters

SpecMatch == MatchInit /\ [][MatchNext]_vars

\* C1: matching_parameters(fn) returns exactly kwargs_for_training when fn
\* declares **kwargs, and otherwise exactly the entries of
\* kwargs_for_training whose key is a declared parameter other than self; a
\* declared parameter that is not offered is left out, and no key outside
\* kwargs_for_training is returned.
C1_MatchReturnsDeclaredSubset ==
    fn.kind \in {"function", "method"} =>
        /\ ~ret.raised
        /\ LET A == env.kwargs_for_training
               declared == Range(fn.args) \ {"self"}
           IN  IF fn.keywords # KeywordsNone
               THEN ret.value = A
               ELSE /\ DOMAIN ret.value = declared \cap DOMAIN A
                    /\ \A k \in DOMAIN ret.value : ret.value[k] = A[k]

\* a function declaring one offered and one unknown parameter, no **kwargs,
\* was matched and received only the offered one
C1_Witness ==
    /\ fn.kind = "function"
    /\ fn.keywords = KeywordsNone
    /\ Range(fn.args) = {"model_dir", "epochs"}
    /\ ~ret.raised
    /\ DOMAIN ret.value = {"model_dir"}

-----------------------------------------------------------------------------
(* Specification of TrainingEnvironment.train(): train() called up to      *)
(* MaxRuns times on a constructed object, statement by statement           *)

TrainInit ==
    /\ EnvConstructed
    /\ MatchIdle
    /\ DiskFresh
    /\ archive \in Archives
    /\ user \in UserModules
    /\ TrainIdle
    /\ LoaderIdle
    /\ TrainerIdle
    /\ SupervisorIdle
    /\ ServerIdle

\* train() is called: control enters the try body
CallTrain ==
    /\ tpc \in {"idle", "returned", "raised"}
    /\ runs < MaxRuns
    /\ runs' = runs + 1
    /\ tpc' = TryBody[1]
    /\ texc' = None
    /\ tlog' = <<>>
    /\ locals' = NoLocals
    /\ UNCHANGED <<envVars, matchVars, diskVars, user, metrics, loadVars,
                   trainerVars, supVars, serverVars>>

\* the next statement of the try body runs
TrainStep ==
    /\ tpc \in Range(TryBody)
    /\ \E o \in StepOutcomes(tpc, TrainState(env, code, output, metrics, locals),
                             archive, user, downloads + 1) :
          /\ env' = o.state.self
          /\ code' = o.state.code
          /\ output' = o.state.output
          /\ metrics' = o.state.metrics
          /\ locals' = o.state.locals
          /\ tlog' = Append(tlog, [step |-> tpc, raised |-> o.raised, exc |-> o.exc])
          /\ tpc' = IF o.raised THEN "except" ELSE NextStep(tpc)
          /\ texc' = IF o.raised THEN Exception(o.exc, tpc) ELSE texc
    /\ downloads' = IF tpc = "download_user_module" THEN downloads + 1 ELSE downloads
    /\ UNCHANGED <<environ, config, matchVars, archive, user, runs, loadVars,
                   trainerVars, supVars, serverVars>>

\* except Exception as e: the failure file is written and e is raised again
TrainExcept ==
    /\ tpc = "except"
    /\ output' = write_failure_file(FailureMessage(texc), env.base_dir, output)
    /\ tpc' = "raised"
    /\ UNCHANGED <<envVars, matchVars, code, archive, downloads, user, metrics,
                   texc, tlog, locals, runs, loadVars,
                   trainerVars, supVars, serverVars>>

TrainNext == CallTrain \/ TrainStep \/ TrainExcept

SpecTrain == TrainInit /\ [][TrainNext]_vars

LastStep == tlog[Len(tlog)]

FailurePath == os_path_join(os_path_join(BASE_DIRECTORY, "output"), "failure")
SuccessPath == os_path_join(os_path_join(BASE_DIRECTORY, "output"), "success")

\* C3: whenever a statement of train()'s try body raises, the failure file
\* <base_dir>/output/failure receives a message holding the exception's
\* message and its full stack trace, and after that the same exception is
\* raised to the caller; train() does not return normally after an exception.
C3_ExceptionWritesFailureAndReraises ==
    /\ (\E i \in DOMAIN tlog : tlog[i].raised) => tpc \in {"except", "raised"}
    /\ tpc = "returned" => \A i \in DOMAIN tlog : ~tlog[i].raised
    /\ tpc = "raised" =>
          /\ LastStep.raised
          /\ texc = Exception(LastStep.exc, LastStep.step)
          /\ FailurePath \in DOMAIN output
          /\ LET written == output[FailurePath]
                 message == written[Len(written)]
             IN  /\ message.e = texc.message
                 /\ message.trc.message = texc.message
                 /\ message.trc.class = texc.class
                 /\ message.trc.traceback = <<"train", LastStep.step>>

\* the import of the user's module raised and train() has raised it again
C3_Witness ==
    /\ tpc = "raised"
    /\ LastStep.step = "import_user_module"
    /\ texc.class = "UserImportError"
    /\ FailurePath \in DOMAIN output

\* the run whose metrics start, download and import all went through, with a
\* user module that raises nothing
WellBehavedRun ==
    /\ ~user.import_raises
    /\ \A k \in 1..3 :
          \E i \in DOMAIN tlog : tlog[i].step = TryBody[k] /\ ~tlog[i].raised

\* C4: a train() run on a user module that downloads, imports and trains
\* without error ends normally: the empty success file is written, no
\* failure file is written, and train() returns without raising.
C4_GoodRunWritesSuccess ==
    (runs = 1 /\ tpc \in {"returned", "raised"} /\ WellBehavedRun) =>
        /\ tpc = "returned"
        /\ SuccessPath \in DOMAIN output
        /\ output[SuccessPath] = <<>>
        /\ FailurePath \notin DOMAIN output

\* C7: whenever a download or extraction of the user module has failed and
\* the error has reached the caller, the code directory has been removed;
\* for Server._download_user_module_internal and for
\* TrainingEnvironment.train() alike.
C7_FailedDownloadLeavesNoCodeDir ==
    /\ (lpc \in {"failed", "raised"} /\ last.downloaded) => ~code.exists
    /\ (tpc = "raised" /\ LastStep.step = "download_user_module") => ~code.exists

\* the steps of a run in their order, after the start of
\* the metrics process
StepOrder ==
    <<"start_metrics_if_enabled", "download_user_module", "import_user_module",
      "load_training_parameters", "__train__", "write_success_file">>

\* C16: the steps a train() call has executed are, in this order and each
\* once, download, import, parameter matching, user training and the writing
\* of the outcome; a step starts only after the one before it completed
\* without raising, no download is repeated within a call, and a call that
\* has ended is in exactly one of the states returned (success file written)
\* and raised (failure file written).
C16_TrainStepsSequentialOneTerminalState ==
    /\ Len(tlog) <= Len(StepOrder)
    /\ \A i \in DOMAIN tlog :
          /\ tlog[i].step = StepOrder[i]
          /\ i < Len(tlog) => ~tlog[i].raised
    /\ tpc \in Range(StepOrder) =>
          /\ tpc = StepOrder[Len(tlog) + 1]
          /\ \A i \in DOMAIN tlog : ~tlog[i].raised
    /\ downloads <= runs
    /\ tpc \in {"except", "raised"} => (tlog # <<>> /\ LastStep.raised)
    /\ tpc = "raised" =>
          /\ FailurePath \in DOMAIN output
          /\ ~(Len(tlog) = Len(StepOrder) /\ ~LastStep.raised)
    /\ tpc = "returned" =>
          /\ Len(tlog) = Len(StepOrder)
          /\ \A i \in DOMAIN tlog : ~tlog[i].raised
          /\ SuccessPath \in DOMAIN output

\* a second run went through download and import, stopped at the parameter
\* matching and ended in the failure state
C16_Witness ==
    /\ runs = 2
    /\ tpc = "raised"
    /\ Len(tlog) = 4
    /\ tlog[2].step = "download_user_module"
    /\ tlog[3].step = "import_user_module"
    /\ tlog[4].step = "load_training_parameters"
    /\ tlog[4].raised
    /\ downloads = 2

\* the messages of the failure file
FailureFile == Get(output, FailurePath, <<>>)

\* the current call has written the success file
WroteSuccess ==
    \E i \in DOMAIN tlog : tlog[i].step = "write_success_file" /\ ~tlog[i].raised

\* the markers a call that has ended has written, and the number of
\* messages in the failure file while no call has succeeded
C18_MarkersInEveryState ==
    /\ WroteSuccess => tpc = "returned"
    /\ tpc = "returned" => WroteSuccess /\ SuccessPath \in DOMAIN output
    /\ tpc = "raised" =>
          /\ ~WroteSuccess
          /\ FailureFile # <<>>
          /\ FailureFile[Len(FailureFile)].e = texc.message
          /\ FailureFile[Len(FailureFile)].trc.class = texc.class
    /\ SuccessPath \notin DOMAIN output =>
          Len(FailureFile) = (IF tpc \in {"idle", "raised"} THEN runs ELSE runs - 1)

\* the failure file changes only when the except block of a call writes to
\* it: one message is added at the end, the success file is left alone
C18_MarkersInEveryStep ==
    /\ FailureFile' # FailureFile =>
          /\ tpc = "except"
          /\ tpc' = "raised"
          /\ Len(FailureFile') = Len(FailureFile) + 1
          /\ \A i \in DOMAIN FailureFile : FailureFile'[i] = FailureFile[i]
          /\ (SuccessPath \in DOMAIN output') = (SuccessPath \in DOMAIN output)
    /\ (tpc = "except" /\ tpc' = "raised") => FailureFile' # FailureFile

\* C18: no train() call writes both the success and the failure file; a call
\* that has returned has written the success file, a call that has raised
\* has written the failure file; each failed call appends one message to the
\* failure file and leaves the earlier messages in place, so after n failed
\* calls the file holds their n messages in call order.
C18_MarkersExclusiveFailuresAppended ==
    []C18_MarkersInEveryState /\ [][C18_MarkersInEveryStep]_vars

\* two calls have failed, the first in the download and the second in the
\* parameter matching: the failure file holds the two messages in that order
C18_Witness ==
    /\ runs = 2
    /\ tpc = "raised"
    /\ Len(FailureFile) = 2
    /\ FailureFile[1].trc.class = "S3DownloadError"
    /\ FailureFile[2].trc.class = "TypeError"
    /\ SuccessPath \notin DOMAIN output

-----------------------------------------------------------------------------
(* Specification of a training job: the TrainingEnvironment is constructed *)
(* from the configuration files on disk; on the object, if there is one,   *)
(* the caller then calls train(), load_training_parameters,                *)
(* matching_parameters, write_success_file and write_failure_file in any   *)
(* order, one call at a time                                               *)

\* the three configuration files, each present and well-formed or not; the
\* hyperparameters also without the region, or with a value that is not JSON
JobConfigFiles ==
    {[f \in {RESOURCE_CONFIG_FILE, HYPERPARAMETERS_FILE, INPUT_DATA_CONFIG_FILE} |->
        CASE f = RESOURCE_CONFIG_FILE -> rc
          [] f = HYPERPARAMETERS_FILE -> hp
          [] OTHER -> ch] :
     rc \in {JsonFile([current_host |-> "algo-1", hosts |-> <<"algo-1", "algo-2">>]),
             AbsentFile, MalformedFile},
     hp \in {JsonFile([sagemaker_region |-> "\"us-west-2\"",
                       sagemaker_program |-> "\"main.py\"",
                       sagemaker_submit_directory |-> "\"s3://bucket/code.tar.gz\""]),
             JsonFile([sagemaker_program |-> "\"main.py\"",
                       sagemaker_submit_directory |-> "\"s3://bucket/code.tar.gz\""]),
             JsonFile([sagemaker_region |-> "us-west-2",
                       sagemaker_program |-> "\"main.py\""]),
             AbsentFile, MalformedFile},
     ch \in {JsonFile([training |-> [TrainingInputMode |-> "File"]]),
             AbsentFile, MalformedFile}}

JobConfigs == [files : JobConfigFiles, cpus : {4}, gpus : {0}, existing : {{}}]

\* what the caller passes to the matcher: a function with **kwargs, one
\* naming two parameters, a bound method, and the user's module
JobCallables ==
    {[kind |-> "function", args |-> <<>>, keywords |-> "kwargs"],
     [kind |-> "function", args |-> <<"hyperparameters", "epochs">>, keywords |-> KeywordsNone],
     [kind |-> "method", args |-> <<"self", "model_dir">>, keywords |-> KeywordsNone]}
    \cup Modules

\* an exception raised by the constructor
ConstructorException(class) ==
    [class |-> class, message |-> "message of " \o class, traceback |-> <<"__init__">>]

\* a message the caller writes with write_failure_file
CallerMessage ==
    [text |-> "training failed", e |-> "", trc |-> [traceback |-> <<>>, class |-> "", message |-> ""]]

JobInit ==
    /\ env = None
    /\ environ = EmptyDict
    /\ config \in JobConfigs
    /\ MatchIdle
    /\ DiskFresh
    /\ archive = <<"main.py", "util.py">>
    /\ user \in UserModules
    /\ metrics = FALSE
    /\ tpc = "constructing"
    /\ texc = None
    /\ tlog = <<>>
    /\ locals = NoLocals
    /\ runs = 0
    /\ LoaderIdle
    /\ TrainerIdle
    /\ SupervisorIdle
    /\ ServerIdle

\* no train() call is running on the object
BetweenCalls == env # None /\ tpc \in {"idle", "returned", "raised"}

\* env = TrainingEnvironment(): the object, or the exception raised to the
\* caller
Construct ==
    /\ tpc = "constructing"
    /\ LET c == TrainingEnvironment__init__(BASE_DIRECTORY, config.files, config.cpus,
                                            config.gpus, config.existing)
       IN  /\ env' = IF c.outcome.raised THEN None ELSE c.outcome.value
           /\ environ' = c.environ
           /\ texc' = IF c.outcome.raised THEN ConstructorException(c.outcome.exc) ELSE None
    /\ tpc' = "idle"
    /\ UNCHANGED <<config, matchVars, diskVars, user, metrics, tlog, locals, runs,
                   loadVars, trainerVars, supVars, serverVars>>

\* env.train()
JobCallTrain == BetweenCalls /\ CallTrain

\* env.load_training_parameters(f)
CallLoadTrainingParameters ==
    /\ BetweenCalls
    /\ \E f \in JobCallables :
          LET r == load_training_parameters(env, f)
          IN  /\ fn' = f
              /\ ret' = IF r.raised THEN r ELSE Return(None)
              /\ env' = IF r.raised THEN env ELSE r.value
    /\ UNCHANGED <<environ, config, diskVars, trainVars, loadVars,
                   trainerVars, supVars, serverVars>>

\* env.matching_parameters(f)
JobCallMatchingParameters ==
    /\ BetweenCalls
    /\ \E f \in JobCallables :
          /\ fn' = f
          /\ ret' = matching_parameters(env, f)
    /\ UNCHANGED <<envVars, diskVars, trainVars, loadVars,
                   trainerVars, supVars, serverVars>>

\* env.write_success_file()
CallWriteSuccessFile ==
    /\ BetweenCalls
    /\ \E o \in write_success_file(env, output) : output' = o.output
    /\ UNCHANGED <<envVars, matchVars, code, archive, downloads, trainVars, loadVars,
                   trainerVars, supVars, serverVars>>

\* TrainingEnvironment.write_failure_file(message, env.base_dir)
CallWriteFailureFile ==
    /\ BetweenCalls
    /\ Len(Get(output, os_path_join(env.output_dir, "failure"), <<>>)) < MaxRuns
    /\ output' = write_failure_file(CallerMessage, env.base_dir, output)
    /\ UNCHANGED <<envVars, matchVars, code, archive, downloads, trainVars, loadVars,
                   trainerVars, supVars, serverVars>>

JobNext ==
    Construct \/ JobCallTrain \/ TrainStep \/ TrainExcept
    \/ CallLoadTrainingParameters \/ JobCallMatchingParameters
    \/ CallWriteSuccessFile \/ CallWriteFailureFile

SpecJob == JobInit /\ [][JobNext]_vars

\* the configuration cannot be loaded: a file is absent or is not JSON, a
\* hyperparameter value is not JSON, or the region hyperparameter is missing
ConfigFailure(files) ==
    \/ \E f \in DOMAIN files : files[f].state \in {"absent", "malformed"}
    \/ LET hp == files[HYPERPARAMETERS_FILE]
       IN  /\ hp.state = "ok"
           /\ \/ "sagemaker_region" \notin DOMAIN hp.content
              \/ \E k \in DOMAIN hp.content : json_loads(hp.content[k]).raised

\* C14: when the configuration cannot be loaded, the constructor raises to
\* its caller and no TrainingEnvironment object exists; nothing of the user
\* module was downloaded, imported or run, before the constructor or after.
C14_ConfigFailureRaisedAtConstruction ==
    /\ tpc = "constructing" => downloads = 0 /\ code = NoDir /\ tlog = <<>> /\ runs = 0
    /\ (tpc # "constructing" /\ ConfigFailure(config.files)) =>
          /\ env = None
          /\ texc # None
          /\ texc.class \in {"IOError", "ValueError", "KeyError"}
          /\ texc.traceback = <<"__init__">>
          /\ runs = 0
          /\ tlog = <<>>
          /\ downloads = 0
          /\ code = NoDir
          /\ locals = NoLocals
          /\ ~metrics
          /\ fn = NoCall

\* the hyperparameters lack the region: the constructor has raised KeyError
C14_Witness ==
    /\ tpc = "idle"
    /\ env = None
    /\ config.files[HYPERPARAMETERS_FILE].state = "ok"
    /\ "sagemaker_region" \notin DOMAIN config.files[HYPERPARAMETERS_FILE].content
    /\ texc.class = "KeyError"

\* the object the constructor returned for the job's configuration
Constructed ==
    TrainingEnvironment__init__(BASE_DIRECTORY, config.files, config.cpus,
                                config.gpus, config.existing).outcome.value

\* C15 as stated: after construction, whatever calls of
\* load_training_parameters, matching_parameters, train, write_success_file
\* and write_failure_file are made, every field of the TrainingEnvironment,
\* training_parameters included, has the value the constructor gave it.
C15_ContextNeverMutated ==
    (tpc # "constructing" /\ env # None) => env = Constructed

\* C15: after construction, whatever calls are made, every field of the
\* TrainingEnvironment other than training_parameters has the value the
\* constructor gave it; training_parameters is None or what
\* matching_parameters returned to load_training_parameters.
C15_ContextMutatedOnlyInTrainingParameters ==
    (tpc # "constructing" /\ env # None) =>
        LET constructed == Constructed
        IN  /\ DOMAIN env = DOMAIN constructed
            /\ \A k \in DOMAIN env \ {"training_parameters"} : env[k] = constructed[k]
            /\ \/ env.training_parameters = None
               \/ \E f \in JobCallables :
                     LET r == matching_parameters(constructed, f)
                     IN  ~r.raised /\ env.training_parameters = r.value

\* load_training_parameters was called with a function and a train() call
\* has failed since: the other fields are as constructed
C15_Witness ==
    /\ env # None
    /\ env.training_parameters # None
    /\ DOMAIN env.training_parameters = {"hyperparameters"}
    /\ tpc = "raised"
    /\ runs = 2
    /\ env.kwargs_for_training = Constructed.kwargs_for_training
    /\ os_path_join(env.output_dir, "success") \in DOMAIN output

-----------------------------------------------------------------------------
(* Specification of the serving loader: Server._download_user_module       *)
(* called up to MaxOps times in a process whose code directory starts      *)
(* absent. env is the ContainerEnvironment passed to it, of which it reads *)
(* code_dir and user_script_name and calls download_user_module.           *)

AttemptDurations == {1000, SlowAttemptMs}

LoaderInit ==
    /\ EnvConstructed
    /\ env.available_cpus = 4
    /\ env.available_gpus = 0
    /\ env.channels = EmptyDict
    /\ MatchIdle
    /\ DiskFresh
    /\ archive \in Archives
    /\ user = [import_raises |-> FALSE]
    /\ TrainIdle
    /\ LoaderIdle
    /\ TrainerIdle
    /\ SupervisorIdle
    /\ ServerIdle

\* Server._download_user_module(env) is called: the first attempt is due
CallDownloadUserModule ==
    /\ lpc \in {"idle", "returned", "raised"}
    /\ ops < MaxOps
    /\ ops' = ops + 1
    /\ lpc' = "attempt"
    /\ lexc' = ""
    /\ attempt_number' = 1
    /\ elapsed' = 0
    /\ UNCHANGED <<envVars, matchVars, diskVars, trainVars, last,
                   trainerVars, supVars, serverVars>>

\* one attempt: _download_user_module_internal runs and takes d milliseconds
Attempt ==
    /\ lpc = "attempt"
    /\ \E o \in _download_user_module_internal(env, code, archive, downloads + 1),
          d \in AttemptDurations :
          /\ code' = o.code
          /\ downloads' = IF o.downloaded THEN downloads + 1 ELSE downloads
          /\ last' = [raised |-> o.raised, exc |-> o.exc, downloaded |-> o.downloaded,
                      after_success |-> last.after_success \/ (last.called /\ ~last.raised),
                      called |-> TRUE]
          /\ elapsed' = elapsed + d
          /\ lpc' = IF o.raised THEN "failed" ELSE "returned"
          /\ lexc' = o.exc
    /\ UNCHANGED <<envVars, matchVars, output, archive, trainVars, attempt_number, ops,
                   trainerVars, supVars, serverVars>>

\* a retry that starts the clock and the backoff again
Retry_restarting ==
    /\ lpc = "failed"
    /\ ~stop_after_delay(elapsed)
    /\ elapsed' = 0
    /\ attempt_number' = 1
    /\ lpc' = "attempt"
    /\ UNCHANGED <<envVars, matchVars, diskVars, trainVars, lexc, last, ops,
                   trainerVars, supVars, serverVars>>

\* the attempt raised within the time budget: sleep, then attempt again
Retry ==
    /\ lpc = "failed"
    /\ ~stop_after_delay(elapsed)
    /\ elapsed' = elapsed + exponential_sleep(attempt_number)
    /\ attempt_number' = attempt_number + 1
    /\ lpc' = "attempt"
    /\ UNCHANGED <<envVars, matchVars, diskVars, trainVars, lexc, last, ops,
                   trainerVars, supVars, serverVars>>

\* the attempt raised and the time budget is used up: its exception is
\* raised to the caller
GiveUp ==
    /\ lpc = "failed"
    /\ stop_after_delay(elapsed)
    /\ lpc' = "raised"
    /\ UNCHANGED <<envVars, matchVars, diskVars, trainVars, lexc, attempt_number,
                   elapsed, last, ops,
                   trainerVars, supVars, serverVars>>

LoaderNext == CallDownloadUserModule \/ Attempt \/ Retry \/ GiveUp

SpecLoader == LoaderInit /\ [][LoaderNext]_vars

\* The call runs in the caller's thread: an attempt that is due is made, and
\* after an attempt that raised the decorator sleeps and goes on or gives up.
\* Whether the caller calls again is up to the caller.
SpecLoaderLive ==
    SpecLoader /\ WF_vars(Attempt) /\ WF_vars(Retry) /\ WF_vars(GiveUp)

\* a Server._download_user_module call is running, and has ended
Running == lpc \in {"attempt", "failed"}
Ended == lpc \in {"returned", "raised"}

\* how a call has ended: raised with the last attempt's error once the time
\* ceiling was reached, or returned after an attempt that did not raise
C17_EndsInEveryState ==
    /\ lpc = "raised" =>
          /\ lexc # ""
          /\ last.raised
          /\ last.exc = lexc
          /\ elapsed >= 600000
    /\ lpc = "returned" => ~last.raised
    /\ lpc = "attempt" => elapsed < 600000 + 60000

\* downloads are made by attempts only, a call that has returned attempts
\* nothing more, and the clock of a running call moves forward
C17_EndsInEveryStep ==
    /\ downloads' # downloads => lpc = "attempt"
    /\ lpc = "returned" => (lpc' = "returned" \/ (lpc' = "attempt" /\ ops' = ops + 1))
    /\ (Running /\ Running') => (ops' = ops /\ elapsed' > elapsed)

\* C17: every Server._download_user_module call ends: it returns once an
\* attempt has succeeded, or it raises the last attempt's error to its caller
\* once the time ceiling of 600000 ms is reached; while it runs the elapsed
\* time grows with every step, and after an attempt has succeeded no further
\* attempt is made by that call.
C17_RetriedDownloadTerminates ==
    /\ []C17_EndsInEveryState
    /\ [][C17_EndsInEveryStep]_vars
    /\ (Running ~> Ended)

\* the time ceiling was reached after several failed attempts and the
\* download error was raised to the caller
C17_Witness ==
    /\ lpc = "raised"
    /\ attempt_number > 2
    /\ elapsed >= 600000
    /\ lexc = "S3DownloadError"
    /\ ~code.exists

\* C5 as stated: once a _download_user_module_internal call has returned
\* normally, no later call downloads again.
C5_NoDownloadAfterSuccess ==
    ~(last.after_success /\ last.downloaded)

\* C5 amended: when the archive holds the file <user_script_name>, once a
\* _download_user_module_internal call has returned normally every later call
\* returns normally without downloading; when the archive lacks that file,
\* a later call downloads again.
C5_NoDownloadAfterSuccessWithScript ==
    /\ env.user_script_name \in Range(archive) =>
          (last.after_success => ~last.downloaded /\ ~last.raised)
    /\ env.user_script_name \notin Range(archive) =>
          (last.called => last.downloaded)

\* a second call found the module of the first call and did not download
C5_Witness ==
    /\ env.user_script_name \in Range(archive)
    /\ last.after_success
    /\ ~last.downloaded
    /\ ops = 2
    /\ downloads = 1

\* C6: when Server._download_user_module returns, the code directory holds
\* exactly the members of the archive, each written to its end by the one
\* attempt that succeeded, and nothing of a failed attempt.
C6_ReturnedDirIsTheSuccessfulExtraction ==
    lpc = "returned" =>
        /\ code.exists
        /\ DOMAIN code.files = Range(archive)
        /\ \A name \in DOMAIN code.files :
              /\ code.files[name].complete
              /\ code.files[name].by = downloads

\* two attempts failed, one of them part-way through the extraction, and the
\* third succeeded
C6_Witness ==
    /\ lpc = "returned"
    /\ attempt_number = 3
    /\ downloads = 3
    /\ last.downloaded

-----------------------------------------------------------------------------
(* Specification of trainer.train(): one call, statement by statement *)

TrainerInit ==
    /\ EnvAbsent
    /\ MatchIdle
    /\ DiskFresh
    /\ archive = <<"main.py", "util.py">>
    /\ user = [import_raises |-> FALSE]
    /\ TrainIdle
    /\ LoaderIdle
    /\ TrainerIdle
    /\ SupervisorIdle
    /\ ServerIdle

\* training_env = env.TrainingEnv(); framework = importlib.import_module(...)
\* which raises ImportError when the framework module is not there
TrainerImport ==
    /\ trpc = "idle"
    /\ \E e \in TrainingEnvs, found \in BOOLEAN :
          /\ env' = e
          /\ IF found
             THEN /\ \E fw \in Frameworks :
                      /\ fw.name = e.framework_module
                      /\ framework' = fw
                  /\ trpc' = "train"
             ELSE /\ framework' = framework
                  /\ trpc' = "raised"
    /\ UNCHANGED <<environ, config, matchVars, diskVars, archive, user, trainVars, loadVars,
                   model, calls, supVars, serverVars>>

\* model = framework.train(**matching_args(framework.train, training_env)):
\* the user's train returns a model or raises
TrainerTrain ==
    /\ trpc = "train"
    /\ \E raises \in BOOLEAN :
          IF raises
          THEN /\ model' = model
               /\ trpc' = "raised"
          ELSE /\ \E m \in Models : model' = m
               /\ trpc' = "save"
    /\ calls' = Append(calls, Call("framework.train", None, <<>>))
    /\ UNCHANGED <<envVars, matchVars, diskVars, archive, user, trainVars, loadVars,
                   framework, supVars, serverVars>>

\* if model: ... -- the save call, which may raise, then train() returns
TrainerSave ==
    /\ trpc = "save"
    /\ calls' = calls \o save_calls(framework, model, env)
    /\ \E raises \in BOOLEAN :
          trpc' = IF raises /\ save_calls(framework, model, env) # <<>>
                  THEN "raised" ELSE "returned"
    /\ UNCHANGED <<envVars, matchVars, diskVars, archive, user, trainVars, loadVars,
                   framework, model, supVars, serverVars>>

TrainerNext == TrainerImport \/ TrainerTrain \/ TrainerSave

SpecTrainer == TrainerInit /\ [][TrainerNext]_vars

\* the save calls among the calls made so far
SaveCalls == SelectSeq(calls, LAMBDA c : c.callee # "framework.train")

\* C2: after framework.train has returned, a truthy model is saved exactly
\* once: by framework.save(model, model_dir) when the framework has save (and
\* then model.save is not called), by model.save(<model_dir>/saved_model)
\* when it has not; a falsy model or None is not saved at all; and no save
\* call is made before train has returned.
C2_SaveFollowsModelAndFramework ==
    /\ Len(SaveCalls) <= 1
    /\ trpc \in {"idle", "train"} => SaveCalls = <<>>
    /\ SaveCalls # <<>> => calls[1].callee = "framework.train"
    /\ (trpc \in {"returned", "raised"} /\ Len(calls) > 0 /\ SaveCalls = <<>>) =>
          (trpc = "raised" \/ ~Truthy(model))
    /\ trpc = "returned" =>
          IF Truthy(model)
          THEN IF hasattr(framework, "save")
               THEN SaveCalls = <<Call("framework.save", model, env.model_dir)>>
               ELSE SaveCalls =
                        <<Call("model.save", model, Append(env.model_dir, "saved_model"))>>
          ELSE SaveCalls = <<>>

\* a framework with save got the truthy model its train returned
C2_Witness ==
    /\ trpc = "returned"
    /\ hasattr(framework, "save")
    /\ model = [type |-> "Model", id |-> 2]
    /\ Len(calls) = 2
    /\ calls[2].callee = "framework.save"

-----------------------------------------------------------------------------
(* Specification of the supervisor: it launches the proxy and the worker  *)
(* pool as its HostingEnvironment says, and then waits for SIGTERM; the    *)
(* children may exit at any time, the termination handler runs once        *)

ProxyPids == {NoPid, 101, 102}
WorkerPids == {201, 202}

\* os.environ of a hosting container: each variable the constructor reads
\* is set or not
EnvValue(name, use_nginx) ==
    CASE name = MODEL_SERVER_WORKERS_PARAM -> "2"
      [] name = MODEL_SERVER_TIMEOUT_PARAM -> "100"
      [] name = USE_NGINX_ENV -> use_nginx
      [] name = upper(CONTAINER_LOG_LEVEL_PARAM) -> "20"
      [] name = upper(SAGEMAKER_REGION_PARAM_NAME) -> "us-west-2"

OsEnvirons ==
    {[k \in names |-> EnvValue(k, use_nginx)] :
        names \in SUBSET {MODEL_SERVER_WORKERS_PARAM, MODEL_SERVER_TIMEOUT_PARAM,
                          USE_NGINX_ENV, upper(CONTAINER_LOG_LEVEL_PARAM),
                          upper(SAGEMAKER_REGION_PARAM_NAME)},
        use_nginx \in {"true", "false"}}

\* multiprocessing.cpu_count() of the container
HostingCpus == 4

\* the WSGI application the worker pool serves
ModuleApp == "my_module"

\* the HostingEnvironment objects whose construction succeeds
HostingEnvs ==
    {c \in {HostingEnvironment__init__(BASE_DIRECTORY, e, HostingCpus, 0) : e \in OsEnvirons} :
        ~c.outcome.raised}

SupervisorInit ==
    /\ \E c \in HostingEnvs :
          /\ env = c.outcome.value
          /\ environ = c.environ
          /\ config = NoConfig
    /\ MatchIdle
    /\ DiskFresh
    /\ archive = <<"main.py", "util.py">>
    /\ user = [import_raises |-> FALSE]
    /\ TrainIdle
    /\ LoaderIdle
    /\ TrainerIdle
    /\ ServerIdle
    /\ spc = "start_proxy"
    /\ pids = [nginx |-> NoPid, gunicorn |-> NoPid]
    /\ alive = {}
    /\ kills = <<>>
    /\ exit_status = <<>>
    /\ escaped = ""
    /\ popens = <<>>

\* start_server launches the proxy when the environment asks for one
StartProxy ==
    /\ spc = "start_proxy"
    /\ popens' = popens \o launch_proxy(env)
    /\ IF env.use_nginx
       THEN \E p \in ProxyPids \ {NoPid} :
               /\ pids' = [pids EXCEPT !.nginx = p]
               /\ alive' = alive \cup {p}
       ELSE UNCHANGED <<pids, alive>>
    /\ spc' = "start_workers"
    /\ UNCHANGED <<envVars, matchVars, diskVars, archive, user, trainVars, loadVars,
                   trainerVars, serverVars, kills, exit_status, escaped>>

\* start_server launches the worker pool and registers the SIGTERM handler
\* with the two pids
StartWorkers ==
    /\ spc = "start_workers"
    /\ popens' = popens \o launch_workers(env, ModuleApp)
    /\ \E p \in WorkerPids :
          /\ pids' = [pids EXCEPT !.gunicorn = p]
          /\ alive' = alive \cup {p}
    /\ spc' = "running"
    /\ UNCHANGED <<envVars, matchVars, diskVars, archive, user, trainVars, loadVars,
                   trainerVars, serverVars, kills, exit_status, escaped>>

\* a child process exits on its own
ChildExits ==
    /\ \E p \in alive : alive' = alive \ {p}
    /\ UNCHANGED <<envVars, matchVars, diskVars, archive, user, trainVars, loadVars,
                   trainerVars, serverVars, popens, spc, pids, kills, exit_status, escaped>>

\* SIGTERM arrives: _sigterm_handler(nginx_pid, gunicorn_pid) starts
SigtermReceived ==
    /\ spc = "running"
    /\ spc' = "signal_proxy"
    /\ UNCHANGED <<envVars, matchVars, diskVars, archive, user, trainVars, loadVars,
                   trainerVars, serverVars, popens, pids, alive, kills, exit_status, escaped>>

\* if nginx_pid: try: os.kill(nginx_pid, signal.SIGQUIT) ...
HandlerSignalProxy ==
    /\ spc = "signal_proxy"
    /\ LET ks == signal_proxy(pids.nginx, alive)
       IN  /\ kills' = kills \o CallsOf(ks)
           /\ escaped' = EscapedOf(ks)
           /\ spc' = IF EscapedOf(ks) # "" THEN "raised" ELSE "signal_workers"
    /\ UNCHANGED <<envVars, matchVars, diskVars, archive, user, trainVars, loadVars,
                   trainerVars, serverVars, popens, pids, alive, exit_status>>

\* try: os.kill(gunicorn_pid, signal.SIGTERM) ...
HandlerSignalWorkers ==
    /\ spc = "signal_workers"
    /\ LET ks == signal_workers(pids.gunicorn, alive)
       IN  /\ kills' = kills \o CallsOf(ks)
           /\ escaped' = EscapedOf(ks)
           /\ spc' = IF EscapedOf(ks) # "" THEN "raised" ELSE "exit"
    /\ UNCHANGED <<envVars, matchVars, diskVars, archive, user, trainVars, loadVars,
                   trainerVars, serverVars, popens, pids, alive, exit_status>>

\* sys.exit(0)
HandlerExit ==
    /\ spc = "exit"
    /\ exit_status' = <<0>>
    /\ spc' = "exited"
    /\ UNCHANGED <<envVars, matchVars, diskVars, archive, user, trainVars, loadVars,
                   trainerVars, serverVars, popens, pids, alive, kills, escaped>>

SupervisorNext ==
    StartProxy \/ StartWorkers \/ ChildExits \/ SigtermReceived \/ HandlerSignalProxy \/ HandlerSignalWorkers
    \/ HandlerExit

SpecSupervisor == SupervisorInit /\ [][SupervisorNext]_vars

\* the argument that follows flag in a command line
ArgAfter(argv, flag) == argv[(CHOOSE i \in DOMAIN argv : argv[i] = flag) + 1]

\* the supervisor has launched its children
Started == spc \notin {"start_proxy", "start_workers"}

\* C13: with the reverse proxy enabled the proxy is launched first, on the
\* public port, and the worker pool after it on unix:/tmp/gunicorn.sock; with
\* the proxy disabled only the worker pool is launched, on 0.0.0.0:8080. In
\* both modes the pool is given the configured worker count and timeout.
C13_StartupLaunchesProxyThenWorkers ==
    /\ spc = "start_proxy" => popens = <<>>
    /\ spc = "start_workers" =>
          /\ Len(popens) = (IF env.use_nginx THEN 1 ELSE 0)
          /\ \A i \in DOMAIN popens :
                popens[i].argv[1] = "nginx" /\ popens[i].listens = "0.0.0.0:8080"
    /\ Started =>
          LET pool == popens[Len(popens)]
          IN  /\ Len(popens) = (IF env.use_nginx THEN 2 ELSE 1)
              /\ env.use_nginx =>
                    /\ popens[1].argv[1] = "nginx"
                    /\ popens[1].listens = "0.0.0.0:8080"
              /\ pool.argv[1] = "gunicorn"
              /\ ArgAfter(pool.argv, "-b") =
                    (IF env.use_nginx THEN "unix:/tmp/gunicorn.sock" ELSE "0.0.0.0:8080")
              /\ pool.listens = ArgAfter(pool.argv, "-b")
              /\ ArgAfter(pool.argv, "-w") =
                    (IF MODEL_SERVER_WORKERS_PARAM \in DOMAIN environ
                     THEN environ[MODEL_SERVER_WORKERS_PARAM] ELSE "4")
              /\ ArgAfter(pool.argv, "--timeout") =
                    (IF MODEL_SERVER_TIMEOUT_PARAM \in DOMAIN environ
                     THEN environ[MODEL_SERVER_TIMEOUT_PARAM] ELSE "60")

\* a supervisor with the proxy enabled has launched the proxy and then a
\* pool of 2 workers with timeout 100 on the local socket
C13_Witness ==
    /\ spc = "running"
    /\ env.use_nginx
    /\ Len(popens) = 2
    /\ popens[2].listens = LocalSocket
    /\ ArgAfter(popens[2].argv, "-w") = "2"
    /\ ArgAfter(popens[2].argv, "--timeout") = "100"

\* the (pid, signal) pairs of the kills made so far
Signalled == [i \in DOMAIN kills |-> <<kills[i].pid, kills[i].sig>>]

\* C8: the handler sends SIGQUIT to the proxy exactly when there is a proxy,
\* then SIGTERM to the worker pool, and exits with status 0 only after both
\* were attempted; the proxy is signalled before the worker pool.
C8_HandlerSignalsProxyThenWorkersThenExits ==
    /\ exit_status # <<>> => spc = "exited" /\ exit_status = <<0>>
    /\ spc \in {"exit", "exited"} =>
          Signalled = (IF pids.nginx # NoPid THEN <<<<pids.nginx, SIGQUIT>>>> ELSE <<>>)
                      \o <<<<pids.gunicorn, SIGTERM>>>>
    /\ spc = "signal_workers" =>
          Signalled = (IF pids.nginx # NoPid THEN <<<<pids.nginx, SIGQUIT>>>> ELSE <<>>)
    /\ spc \in {"running", "signal_proxy"} => Signalled = <<>>

\* the supervisor of a proxy and a pool has signalled both and exited
C8_Witness ==
    /\ spc = "exited"
    /\ pids.nginx # NoPid
    /\ Len(kills) = 2
    /\ ~kills[1].raised
    /\ ~kills[2].raised

\* C9: whichever of the proxy and the worker pool have already exited, a kill
\* that fails is passed over: the other process is still signalled, the
\* supervisor still exits with status 0, and no failure leaves the handler.
C9_FailedKillIsSwallowed ==
    /\ escaped = ""
    /\ spc # "raised"
    /\ (\E i \in DOMAIN kills : kills[i].raised) =>
          /\ spc \in {"signal_workers", "exit", "exited"}
          /\ spc \in {"exit", "exited"} =>
                kills[Len(kills)] =
                    [pid |-> pids.gunicorn, sig |-> SIGTERM,
                     raised |-> kills[Len(kills)].raised]
    /\ (spc = "exited" /\ \E i \in DOMAIN kills : kills[i].raised) =>
          exit_status = <<0>>

\* the proxy had exited, its kill failed, the pool was signalled, exit 0
C9_Witness ==
    /\ spc = "exited"
    /\ Len(kills) = 2
    /\ kills[1].raised
    /\ ~kills[2].raised
    /\ exit_status = <<0>>

-----------------------------------------------------------------------------
(* Specification of a worker: up to MaxRequests requests, answered one by  *)
(* one by the application of Server._build_flask_app                       *)

\* the model the Server was constructed with: model_fn's result, or None
ServerModels == {[type |-> "Model"], None}

\* application/json is what _invoke takes for an absent header
HeaderValues == {CSV_CONTENT_TYPE, NPY_CONTENT_TYPE}

\* the headers of a request: each of the three names present or not
Headers ==
    UNION {[names -> HeaderValues] : names \in SUBSET {"ContentType", "Content-Type", "Accept"}}

Bodies == {[id |-> 1, utf8 |-> TRUE], [id |-> 2, utf8 |-> FALSE]}

Requests ==
    {[path |-> "/ping", method |-> "GET", headers |-> EmptyDict, data |-> [id |-> 0, utf8 |-> TRUE]]}
    \cup [path : {"/invocations"}, method : {"POST"}, headers : Headers, data : Bodies]

\* what the user's transform_fn may do with a request
TransformOutcomes(req) ==
    {Return(<<"prediction", Get(req.headers, "Accept", JSON_CONTENT_TYPE)>>),
     Return(<<"prediction", CSV_CONTENT_TYPE>>),
     Raise(UnsupportedContentTypeError(NPY_CONTENT_TYPE)),
     Raise(UnsupportedAcceptTypeError(NPY_CONTENT_TYPE)),
     Raise(UnsupportedInputShapeError(2)),
     Raise(OtherException("ValueError", TRUE)),
     Raise(OtherException("KeyError", FALSE))}

ServerInit ==
    /\ EnvAbsent
    /\ MatchIdle
    /\ DiskFresh
    /\ archive = <<"main.py", "util.py">>
    /\ user = [import_raises |-> FALSE]
    /\ TrainIdle
    /\ LoaderIdle
    /\ TrainerIdle
    /\ SupervisorIdle
    /\ response = <<>>
    /\ request = NoRequest
    /\ transform_calls = <<>>
    /\ served = 0
    /\ app_model \in ServerModels

\* the worker answers one request
HandleRequest ==
    /\ served < MaxRequests
    /\ \E req \in Requests :
          \E outcome \in TransformOutcomes(req) :
             LET d == Dispatch(app_model, req, outcome)
             IN  /\ request' = req
                 /\ transform_calls' = d.calls
                 /\ response' = Append(response, d.response)
    /\ served' = served + 1
    /\ UNCHANGED <<envVars, matchVars, diskVars, archive, user, trainVars, loadVars,
                   trainerVars, supVars, app_model>>

ServerNext == HandleRequest

SpecServer == ServerInit /\ [][ServerNext]_vars

LastResponse == response[Len(response)]

\* C10: when transform_fn raises during POST /invocations, the response is
\* 415 for UnsupportedContentTypeError, 406 for UnsupportedAcceptTypeError and
\* 412 for UnsupportedInputShapeError, each with the JSON-encoded message as
\* body and content type application/json, and 500 with an empty body for
\* any other exception; every request gets a response, and the worker
\* answers the requests after it.
C10_TransformExceptionsMapToStatus ==
    /\ Len(response) = served
    /\ (transform_calls # <<>> /\ transform_calls[1].outcome.raised) =>
          LET e == transform_calls[1].outcome.exc
              json_error(status) ==
                  /\ LastResponse.status = status
                  /\ LastResponse.body = "\"" \o e.message \o "\""
                  /\ LastResponse.mimetype = JSON_CONTENT_TYPE
          IN  CASE e.class = "UnsupportedContentTypeError" -> json_error(415)
                [] e.class = "UnsupportedAcceptTypeError" -> json_error(406)
                [] e.class = "UnsupportedInputShapeError" -> json_error(412)
                [] OTHER -> LastResponse.status = 500 /\ LastResponse.body = ""

\* after a request that ended in 500, the next one was answered with 415
C10_Witness ==
    /\ served = 2
    /\ response[1].status = 500
    /\ transform_calls # <<>>
    /\ transform_calls[1].outcome.raised
    /\ transform_calls[1].outcome.exc.class = "UnsupportedContentTypeError"
    /\ response[2].status = 415

\* C11: GET /ping is answered with status 200 and an empty body whatever
\* the model of the Server is, without calling transform_fn, and whatever the
\* requests before it were and however they ended.
C11_PingAlwaysReturns200 ==
    (served > 0 /\ request.path = "/ping" /\ request.method = "GET") =>
        /\ LastResponse.status = 200
        /\ LastResponse.body = ""
        /\ transform_calls = <<>>

\* a health check answered after an /invocations request that ended in 500,
\* by a worker whose model is None
C11_Witness ==
    /\ served = 2
    /\ app_model = None
    /\ response[1].status = 500
    /\ request.path = "/ping"
    /\ response[2].status = 200
    /\ response[2].body = ""

\* the headers of the last request, by name
InputContentTypeOf(req) ==
    IF "ContentType" \in DOMAIN req.headers THEN req.headers["ContentType"]
    ELSE IF "Content-Type" \in DOMAIN req.headers THEN req.headers["Content-Type"]
    ELSE "application/json"

\* the requested output type of the last request
AcceptOf(req) ==
    IF "Accept" \in DOMAIN req.headers THEN req.headers["Accept"]
    ELSE "application/json"

\* the body of the request is to be passed on as text
Textual(req) == InputContentTypeOf(req) \in {"application/json", "text/csv"}

\* transform_fn was called exactly once, with the model, the body as text or
\* as bytes, and the two content types; its returned pair became the response
TransformCalledOnceAndAnswered ==
    /\ Len(transform_calls) = 1
    /\ LET c == transform_calls[1]
       IN  /\ c.model = app_model
           /\ c.input_content_type = InputContentTypeOf(request)
           /\ c.requested_output_content_type = AcceptOf(request)
           /\ c.content = IF Textual(request) THEN [text |-> request.data.id]
                                               ELSE [bytes |-> request.data.id]
           /\ ~c.outcome.raised =>
                  /\ LastResponse.status = 200
                  /\ LastResponse.body = c.outcome.value[1]
                  /\ LastResponse.mimetype = c.outcome.value[2]

\* C12 as stated: every POST /invocations request reaches transform_fn
\* exactly once, with (model, content, input content type, requested output
\* type) taken from the headers 'ContentType', 'Content-Type' and 'Accept' (default
\* application/json), the body as text for application/json and text/csv and
\* as bytes otherwise, and a returned (body, content type) is the 200 response.
C12_EveryInvocationCallsTransformOnce ==
    (served > 0 /\ request.path = "/invocations") => TransformCalledOnceAndAnswered

\* C12: the same for every POST /invocations request whose body can be
\* passed on: one whose input content type is not textual, or whose body
\* decodes as UTF-8.
C12_DecodableInvocationCallsTransformOnce ==
    (/\ served > 0
     /\ request.path = "/invocations"
     /\ (Textual(request) => request.data.utf8)) => TransformCalledOnceAndAnswered

\* a request with both header variants and a text body was answered 200 with
\* the pair transform_fn returned, and the 'ContentType' header won
C12_Witness ==
    /\ served > 0
    /\ request.path = "/invocations"
    /\ DOMAIN request.headers = {"ContentType", "Content-Type", "Accept"}
    /\ request.headers["ContentType"] = CSV_CONTENT_TYPE
    /\ request.headers["Content-Type"] = NPY_CONTENT_TYPE
    /\ request.headers["Accept"] = NPY_CONTENT_TYPE
    /\ Len(transform_calls) = 1
    /\ transform_calls[1].content = [text |-> request.data.id]
    /\ transform_calls[1].input_content_type = CSV_CONTENT_TYPE
    /\ ~transform_calls[1].outcome.raised
    /\ LastResponse.status = 200
    /\ LastResponse.mimetype = NPY_CONTENT_TYPE

=============================================================================
